---- MODULE Spec2Model ----
(***************************************************************************)
(* show_cleaning.py: load shows.csv, clean it (dropna on episodes,         *)
(* drop_duplicates on title, sort_values by (year, title), reset_index,    *)
(* astype(int) on episodes), aggregate (nunique, sum, groupby size) and    *)
(* render one line chart with x ticks every 5 years.                       *)
(*                                                                         *)
(* A CSV cell is a sequence: <<>> is an empty field, which read_csv loads  *)
(* as NaN (missing); a title is its sequence of character codes; a year    *)
(* is <<y>>; an episodes value is <<h>>, the number h / FracUnits (floats  *)
(* with a fractional part are kept exactly at that resolution).            *)
(***************************************************************************)
EXTENDS Integers, Sequences, FiniteSets

VARIABLES csv, shows, clean_shows, removed_duplicates, sorted_shows,
          total_shows_overall, total_episodes_overall, num, years, counts,
          annotations, ticks, pc

vars == <<csv, shows, clean_shows, removed_duplicates, sorted_shows,
          total_shows_overall, total_episodes_overall, num, years, counts,
          annotations, ticks, pc>>

(* ------------------------------ bounds -------------------------------- *)

\* Largest number of data rows of shows.csv.
MaxRows == 3

\* Resolution of an episodes value: <<h>> stands for h / FracUnits.
FracUnits == 2

\* The titles "AB" and "B" (character codes), the years (less than, exactly
\* and more than one tick step apart) and the episodes values (0.5, 2.0 and
\* 2.5 at FracUnits = 2) a cell of shows.csv is drawn from.
Titles == {<<1, 2>>, <<2>>}
YearValues == {2015, 2020, 2022}
EpisodeValues == {1, 2 * FracUnits, 2 * FracUnits + 1}

(* --------------------------- cells and rows --------------------------- *)

NaN == <<>>

isna(c) == c = NaN

TitleCells == Titles \cup {NaN}
YearCells == {<<y>> : y \in YearValues} \cup {NaN}
EpisodeCells == {<<h>> : h \in EpisodeValues} \cup {NaN}

Files(T, Y, E) ==
    UNION {[1..n -> [title : T, year : Y, episodes : E]] : n \in 0..MaxRows}

\* The contents of shows.csv, header apart: files in which any cell may be
\* missing, files whose years spread over the whole range, and files with
\* every episodes value.
CsvFiles ==
    Files(TitleCells, {<<2020>>, <<2022>>, NaN}, {<<2 * FracUnits + 1>>, NaN})
        \cup Files(Titles, YearCells, {<<2 * FracUnits>>})
        \cup Files(TitleCells, {<<2020>>}, EpisodeCells)

\* pd.read_csv: the rows in file order under a RangeIndex 0..n-1.
ReadCsv(file) ==
    [i \in 1..Len(file) |->
        [idx |-> i - 1, title |-> file[i].title, year |-> file[i].year,
         episodes |-> file[i].episodes]]

(* ------------------------------ cleaner ------------------------------- *)

RECURSIVE Filter(_, _)
Filter(f, keep) ==
    IF f = <<>> THEN <<>>
    ELSE IF Head(f).idx \in keep THEN <<Head(f)>> \o Filter(Tail(f), keep)
    ELSE Filter(Tail(f), keep)

Rows(f) == {f[i] : i \in 1..Len(f)}

\* A dropna mistaking a zero for a missing value.
DropNaFalsy(f) ==
    Filter(f, {r.idx : r \in {x \in Rows(f) :
                  ~isna(x.episodes) /\ x.episodes # <<0>>}})

\* A dropna without subset=: a row with any missing cell is dropped.
DropNaAny(f) ==
    Filter(f, {r.idx : r \in {x \in Rows(f) :
                  ~isna(x.episodes) /\ ~isna(x.title) /\ ~isna(x.year)}})

\* DataFrame.dropna(subset=["episodes"]).
DropNa(f) ==
    Filter(f, {r.idx : r \in {x \in Rows(f) : ~isna(x.episodes)}})

RECURSIVE DropDuplicatesFrom(_, _)
DropDuplicatesFrom(f, seen) ==
    IF f = <<>> THEN <<>>
    ELSE IF Head(f).title \in seen
         THEN DropDuplicatesFrom(Tail(f), seen)
         ELSE <<Head(f)>> \o DropDuplicatesFrom(Tail(f), seen \cup {Head(f).title})

Reverse(f) == [i \in 1..Len(f) |-> f[Len(f) + 1 - i]]

\* drop_duplicates with keep="last".
DropDuplicatesLast(f) == Reverse(DropDuplicatesFrom(Reverse(f), {}))

\* A duplicate test against the preceding row only.
DropDuplicatesAdjacent(f) ==
    Filter(f, {f[i].idx : i \in {k \in 1..Len(f) :
                  k = 1 \/ f[k - 1].title # f[k].title}})

\* DataFrame.drop_duplicates(subset=["title"], keep="first"): a row is kept
\* unless an earlier row has the same title; missing titles count as equal.
DropDuplicates(f) == DropDuplicatesFrom(f, {})

\* Python's str <: lexicographic on the character codes.
StrLess(a, b) ==
    \E i \in 1..Len(b) :
        /\ \A k \in 1..(i - 1) : k <= Len(a) /\ a[k] = b[k]
        /\ (i > Len(a) \/ a[i] < b[i])

\* The order of one sort key with na_position="last".
TitleLess(a, b) ==
    IF isna(a) THEN FALSE ELSE IF isna(b) THEN TRUE ELSE StrLess(a, b)

YearLess(a, b) ==
    IF isna(a) THEN FALSE ELSE IF isna(b) THEN TRUE ELSE a[1] < b[1]

\* A sort on the title alone.
RowLessTitleOnly(a, b) == TitleLess(a.title, b.title)

\* The lexicographic order on the keys by=["year", "title"], both ascending.
RowLess(a, b) ==
    \/ YearLess(a.year, b.year)
    \/ a.year = b.year /\ TitleLess(a.title, b.title)

\* r goes before the first row greater than it (a stable insertion).
RECURSIVE Insert(_, _)
Insert(f, r) ==
    IF f = <<>> THEN <<r>>
    ELSE IF RowLess(r, Head(f)) THEN <<r>> \o f
    ELSE <<Head(f)>> \o Insert(Tail(f), r)

RECURSIVE SortValues(_)
SortValues(f) ==
    IF f = <<>> THEN <<>>
    ELSE Insert(SortValues(SubSeq(f, 1, Len(f) - 1)), f[Len(f)])

\* DataFrame.reset_index(drop=True).
ResetIndex(f) ==
    [i \in 1..Len(f) |-> [f[i] EXCEPT !.idx = i - 1]]

\* float -> int64 truncates toward zero; the result is a whole number.
ToInt(h) ==
    IF h >= 0 THEN (h \div FracUnits) * FracUnits
    ELSE -(((-h) \div FracUnits) * FracUnits)

\* sorted_shows["episodes"].astype(int), assigned back to the column.
AsTypeInt(f) ==
    [i \in 1..Len(f) |-> [f[i] EXCEPT !.episodes = <<ToInt(f[i].episodes[1])>>]]

\* Lines 16-42 as one function of the loaded frame.
Clean(f) == AsTypeInt(ResetIndex(SortValues(DropDuplicates(DropNa(f)))))

(* ----------------------------- aggregator ----------------------------- *)

\* Series.nunique(): the distinct values, missing ones not counted.
NUnique(f) == Cardinality({r.title : r \in {x \in Rows(f) : ~isna(x.title)}})

RECURSIVE SumUnits(_)
SumUnits(f) ==
    IF f = <<>> THEN 0 ELSE Head(f).episodes[1] + SumUnits(Tail(f))

\* Series.sum() of the integer episodes column.
Sum(f) == SumUnits(f) \div FracUnits

SetMin(S) == CHOOSE m \in S : \A x \in S : m <= x
SetMax(S) == CHOOSE m \in S : \A x \in S : m >= x

\* The keys in descending order.
RECURSIVE Descending(_)
Descending(S) ==
    IF S = {} THEN <<>> ELSE <<SetMax(S)>> \o Descending(S \ {SetMax(S)})

RECURSIVE Ascending(_)
Ascending(S) ==
    IF S = {} THEN <<>> ELSE <<SetMin(S)>> \o Ascending(S \ {SetMin(S)})

GroupKeys(f) == {r.year[1] : r \in {x \in Rows(f) : ~isna(x.year)}}

GroupSize(f, y) == Cardinality({i \in 1..Len(f) : f[i].year = <<y>>})

\* groupby("year").size().reset_index(name="shows"): one row per year
\* present, keys ascending (sort=True), rows with a missing key left out
\* (dropna=True).
GroupBySize(f) ==
    LET ks == Ascending(GroupKeys(f))
    IN  [i \in 1..Len(ks) |-> [year |-> ks[i], shows |-> GroupSize(f, ks[i])]]

(* ------------------------------ renderer ------------------------------ *)

TickStep == 5

SeqSet(s) == {s[i] : i \in 1..Len(s)}

RECURSIVE Arange(_, _, _)
Arange(start, stop, step) ==
    IF start >= stop THEN <<>> ELSE <<start>> \o Arange(start + step, stop, step)

\* An arange whose stop is the maximum itself, not the maximum plus one.
XTicksExclusive(ys) == Arange(SetMin(SeqSet(ys)), SetMax(SeqSet(ys)), TickStep)

\* np.arange(min(years), max(years)+1, 5).
XTicks(ys) == Arange(SetMin(SeqSet(ys)), SetMax(SeqSet(ys)) + 1, TickStep)

(* ------------------------------ pipeline ------------------------------ *)

Init ==
    /\ csv \in CsvFiles
    /\ shows = <<>>
    /\ clean_shows = <<>>
    /\ removed_duplicates = <<>>
    /\ sorted_shows = <<>>
    /\ total_shows_overall = 0
    /\ total_episodes_overall = 0
    /\ num = <<>>
    /\ years = <<>>
    /\ counts = <<>>
    /\ annotations = <<>>
    /\ ticks = <<>>
    /\ pc = "read_csv"

Load ==
    /\ pc = "read_csv"
    /\ shows' = ReadCsv(csv)
    /\ pc' = "dropna"
    /\ UNCHANGED <<csv, clean_shows, removed_duplicates, sorted_shows,
                   total_shows_overall, total_episodes_overall, num, years,
                   counts, annotations, ticks>>

DropNaStep ==
    /\ pc = "dropna"
    /\ clean_shows' = DropNa(shows)
    /\ pc' = "drop_duplicates"
    /\ UNCHANGED <<csv, shows, removed_duplicates, sorted_shows,
                   total_shows_overall, total_episodes_overall, num, years,
                   counts, annotations, ticks>>

DropDuplicatesStep ==
    /\ pc = "drop_duplicates"
    /\ removed_duplicates' = DropDuplicates(clean_shows)
    /\ pc' = "sort_values"
    /\ UNCHANGED <<csv, shows, clean_shows, sorted_shows,
                   total_shows_overall, total_episodes_overall, num, years,
                   counts, annotations, ticks>>

SortValuesStep ==
    /\ pc = "sort_values"
    /\ sorted_shows' = SortValues(removed_duplicates)
    /\ pc' = "reset_index"
    /\ UNCHANGED <<csv, shows, clean_shows, removed_duplicates,
                   total_shows_overall, total_episodes_overall, num, years,
                   counts, annotations, ticks>>

ResetIndexStep ==
    /\ pc = "reset_index"
    /\ sorted_shows' = ResetIndex(sorted_shows)
    /\ pc' = "astype"
    /\ UNCHANGED <<csv, shows, clean_shows, removed_duplicates,
                   total_shows_overall, total_episodes_overall, num, years,
                   counts, annotations, ticks>>

AsTypeStep ==
    /\ pc = "astype"
    /\ sorted_shows' = AsTypeInt(sorted_shows)
    /\ pc' = "aggregate"
    /\ UNCHANGED <<csv, shows, clean_shows, removed_duplicates,
                   total_shows_overall, total_episodes_overall, num, years,
                   counts, annotations, ticks>>

Aggregate ==
    /\ pc = "aggregate"
    /\ total_shows_overall' = NUnique(sorted_shows)
    /\ total_episodes_overall' = Sum(sorted_shows)
    /\ pc' = "groupby"
    /\ UNCHANGED <<csv, shows, clean_shows, removed_duplicates, sorted_shows,
                   num, years, counts, annotations, ticks>>

GroupBy ==
    /\ pc = "groupby"
    /\ num' = GroupBySize(sorted_shows)
    /\ years' = [i \in 1..Len(num') |-> num'[i].year]
    /\ counts' = [i \in 1..Len(num') |-> num'[i].shows]
    /\ pc' = "plot"
    /\ UNCHANGED <<csv, shows, clean_shows, removed_duplicates, sorted_shows,
                   total_shows_overall, total_episodes_overall, annotations,
                   ticks>>

\* plt.plot and the loop over zip(years, counts): one annotation per point.
Plot ==
    /\ pc = "plot"
    /\ annotations' = [i \in 1..Len(years) |-> <<years[i], counts[i]>>]
    /\ pc' = "xticks"
    /\ UNCHANGED <<csv, shows, clean_shows, removed_duplicates, sorted_shows,
                   total_shows_overall, total_episodes_overall, num, years,
                   counts, ticks>>

\* min(years) of an empty list raises ValueError and the script ends there.
XTicksRaise ==
    /\ pc = "xticks"
    /\ years = <<>>
    /\ pc' = "ValueError"
    /\ UNCHANGED <<csv, shows, clean_shows, removed_duplicates, sorted_shows,
                   total_shows_overall, total_episodes_overall, num, years,
                   counts, annotations, ticks>>

XTicksStep ==
    /\ pc = "xticks"
    /\ years # <<>>
    /\ ticks' = XTicks(years)
    /\ pc' = "show"
    /\ UNCHANGED <<csv, shows, clean_shows, removed_duplicates, sorted_shows,
                   total_shows_overall, total_episodes_overall, num, years,
                   counts, annotations>>

Show ==
    /\ pc = "show"
    /\ pc' = "done"
    /\ UNCHANGED <<csv, shows, clean_shows, removed_duplicates, sorted_shows,
                   total_shows_overall, total_episodes_overall, num, years,
                   counts, annotations, ticks>>

Next ==
    \/ Load
    \/ DropNaStep
    \/ DropDuplicatesStep
    \/ SortValuesStep
    \/ ResetIndexStep
    \/ AsTypeStep
    \/ Aggregate
    \/ GroupBy
    \/ Plot
    \/ XTicksRaise
    \/ XTicksStep
    \/ Show

Spec == Init /\ [][Next]_vars

(* ------------------------- stages of the run -------------------------- *)

\* Line 42 has run: sorted_shows is the cleaned dataset.
Cleaned == pc \in {"aggregate", "groupby", "plot", "xticks", "show", "done", "ValueError"}

\* Lines 47-50 have run.
Aggregated == pc \in {"groupby", "plot", "xticks", "show", "done", "ValueError"}

\* Lines 57-63 have run.
Grouped == pc \in {"plot", "xticks", "show", "done", "ValueError"}

\* Line 118 has run without raising.
Ticked == pc \in {"show", "done"}

N == Len(sorted_shows)

\* The rows of shows.csv holding title t, and those of them with episodes.
Occurrences(t) == {i \in 1..Len(csv) : csv[i].title = t}
ValidOccurrences(t) == {i \in Occurrences(t) : ~isna(csv[i].episodes)}

\* Cleaned row r is row c of shows.csv, its episodes converted to an integer.
IsInputRecord(r, c) ==
    /\ ~isna(c.episodes)
    /\ r.title = c.title
    /\ r.year = c.year
    /\ r.episodes[1] % FracUnits = 0
    /\ IF c.episodes[1] >= 0
       THEN r.episodes[1] <= c.episodes[1] /\ c.episodes[1] - r.episodes[1] < FracUnits
       ELSE r.episodes[1] >= c.episodes[1] /\ r.episodes[1] - c.episodes[1] < FracUnits

(* -------------------------------- C1 ---------------------------------- *)

\* C1: after cleaning, no two records of the cleaned dataset share a title
\* and no record of the cleaned dataset has a missing episodes value.
C1_UniqueTitlesNoMissingEpisodes ==
    Cleaned =>
        /\ \A i, j \in 1..N :
               i # j => sorted_shows[i].title # sorted_shows[j].title
        /\ \A i \in 1..N : ~isna(sorted_shows[i].episodes)

\* One row was dropped for its missing episodes, another as a duplicate
\* title, and a record is left.
C1_Witness ==
    /\ Cleaned
    /\ N >= 1
    /\ Len(removed_duplicates) < Len(clean_shows)
    /\ Len(clean_shows) < Len(shows)

(* -------------------------------- C2 ---------------------------------- *)

\* C2 as stated (read on the titles that are present): when several input
\* records share a title, the cleaned record of that title is the first
\* occurrence of the title in shows.csv.
C2_FirstOccurrenceKept ==
    Cleaned =>
        \A k \in 1..N :
            (/\ ~isna(sorted_shows[k].title)
             /\ Cardinality(Occurrences(sorted_shows[k].title)) >= 2) =>
                IsInputRecord(sorted_shows[k],
                              csv[SetMin(Occurrences(sorted_shows[k].title))])

\* C2 as amended: when several input records share a title, the cleaned
\* record of that title is the first occurrence of the title among the
\* input records whose episodes value is not missing.
C2_FirstValidOccurrenceKept ==
    Cleaned =>
        \A k \in 1..N :
            Cardinality(Occurrences(sorted_shows[k].title)) >= 2 =>
                IsInputRecord(sorted_shows[k],
                              csv[SetMin(ValidOccurrences(sorted_shows[k].title))])

\* A title whose first occurrence has no episodes and which has two later
\* occurrences with episodes, differing in year or episodes, is kept.
C2_Witness ==
    /\ Cleaned
    /\ \E k \in 1..N :
           LET t == sorted_shows[k].title
           IN  /\ SetMin(Occurrences(t)) \notin ValidOccurrences(t)
               /\ \E i, j \in ValidOccurrences(t) : i < j /\ csv[i] # csv[j]

(* -------------------------------- C3 ---------------------------------- *)

\* r1 may directly precede r2: r1.year < r2.year, or the years are equal and
\* r1.title <= r2.title; a missing year counts as greater than every year
\* and a missing title as greater than every title.
InOrder(r1, r2) ==
    LET yearLt == ~isna(r1.year) /\ (isna(r2.year) \/ r1.year[1] < r2.year[1])
        titleLe == isna(r2.title) \/ (~isna(r1.title) /\ ~StrLess(r2.title, r1.title))
    IN  yearLt \/ (r1.year = r2.year /\ titleLe)

Permutations(n) ==
    {p \in [1..n -> 1..n] : \A i, j \in 1..n : p[i] = p[j] => i = j}

DuplicateFree(file) ==
    \A i, j \in 1..Len(file) : i # j => file[i].title # file[j].title

\* C3: the cleaned records are ordered by (year, title) ascending (records
\* with a missing year or title come last), and the cleaned output of a
\* duplicate-free input is the same whatever the order of its records.
C3_SortedByYearTitle ==
    Cleaned =>
        /\ \A i \in 1..(N - 1) : InOrder(sorted_shows[i], sorted_shows[i + 1])
        /\ DuplicateFree(csv) =>
               \A p \in Permutations(Len(csv)) :
                   Clean(ReadCsv([i \in 1..Len(csv) |-> csv[p[i]]])) = sorted_shows

\* Three records of a duplicate-free input, two of them of the same year,
\* that the sort had to reorder.
C3_Witness ==
    /\ Cleaned
    /\ N = 3
    /\ DuplicateFree(csv)
    /\ \E i \in 1..2 : sorted_shows[i].year = sorted_shows[i + 1].year
    /\ \E i \in 1..2 : ~InOrder(removed_duplicates[i], removed_duplicates[i + 1])

(* -------------------------------- C4 ---------------------------------- *)

\* C4: total_shows equals the number of records of the cleaned dataset and
\* total_episodes equals the sum of their episodes values, also when a
\* record's title is missing.
C4_TotalsMatchCleaned ==
    Aggregated =>
        /\ total_shows_overall = N
        /\ total_episodes_overall * FracUnits = SumUnits(sorted_shows)

(* -------------------------------- C5 ---------------------------------- *)

RECURSIVE SeqSum(_)
SeqSum(s) == IF s = <<>> THEN 0 ELSE Head(s) + SeqSum(Tail(s))

\* C5: the per-year counts of yearly_counts sum to total_shows, also when a
\* cleaned record has a missing year or a missing title.
C5_CountsSumToTotalShows ==
    Grouped => SeqSum(counts) = total_shows_overall

(* -------------------------------- C6 ---------------------------------- *)

\* C6: yearly_counts has exactly one entry for each distinct year present in
\* the cleaned dataset and no other, each count is the number of cleaned
\* records of that year (so at least 1), and the years strictly ascend.
C6_YearlyCounts ==
    Grouped =>
        /\ {num[i].year : i \in 1..Len(num)}
               = {sorted_shows[k].year[1] :
                      k \in {x \in 1..N : ~isna(sorted_shows[x].year)}}
        /\ \A i \in 1..Len(num) :
               /\ num[i].shows
                      = Cardinality({k \in 1..N : sorted_shows[k].year = <<num[i].year>>})
               /\ num[i].shows >= 1
        /\ \A i \in 1..(Len(num) - 1) : num[i].year < num[i + 1].year
        /\ years = [i \in 1..Len(num) |-> num[i].year]
        /\ counts = [i \in 1..Len(num) |-> num[i].shows]

\* Two years, one of them with two shows.
C6_Witness ==
    /\ Grouped
    /\ Len(num) = 2
    /\ \E i \in 1..2 : num[i].shows = 2

(* -------------------------------- C7 ---------------------------------- *)

\* C7: cleaning the cleaned dataset again yields the same record sequence:
\* no record is removed and the order is unchanged.
C7_CleanIdempotent ==
    Cleaned => Clean(sorted_shows) = sorted_shows

\* The first cleaning dropped rows, reordered the rest and turned a
\* fractional episodes value into an integer.
C7_Witness ==
    /\ Cleaned
    /\ N >= 2
    /\ N < Len(shows)
    /\ \E i \in 1..(Len(removed_duplicates) - 1) :
           ~InOrder(removed_duplicates[i], removed_duplicates[i + 1])
    /\ \E i \in 1..Len(removed_duplicates) :
           removed_duplicates[i].episodes[1] % FracUnits # 0

(* -------------------------------- C8 ---------------------------------- *)

\* C8: when the cleaned dataset is empty, total_shows = 0, total_episodes = 0
\* and yearly_counts = [], and the run does not end in an error at tick
\* placement (min and max are never taken of an empty year sequence).
C8_EmptyDatasetHandled ==
    (Cleaned /\ sorted_shows = <<>>) =>
        /\ Aggregated => total_shows_overall = 0 /\ total_episodes_overall = 0
        /\ Grouped => num = <<>> /\ years = <<>> /\ counts = <<>>
        /\ pc # "ValueError"

(* -------------------------------- C9 ---------------------------------- *)

MinYear == SetMin(SeqSet(years))
MaxYear == SetMax(SeqSet(years))

\* The ticks are exactly min, min + 5, min + 10, ... up to the maximum.
TicksOnGrid ==
    /\ Len(ticks) = ((MaxYear - MinYear) \div TickStep) + 1
    /\ \A i \in 1..Len(ticks) : ticks[i] = MinYear + TickStep * (i - 1)

\* C9 as stated: the ticks are the years min, min + 5, ... that are <= max,
\* the first tick is the minimum year and the last tick is the maximum year.
C9_TicksEndAtMax ==
    Ticked =>
        /\ TicksOnGrid
        /\ ticks[1] = MinYear
        /\ ticks[Len(ticks)] = MaxYear

\* C9 as amended: the ticks are the years min, min + 5, ... that are <= max,
\* the first tick is the minimum year and the last tick is the greatest of
\* these, less than 5 years below the maximum year (and equal to it only
\* when max - min is a multiple of 5).
C9_TicksWithinStepOfMax ==
    Ticked =>
        /\ TicksOnGrid
        /\ ticks[1] = MinYear
        /\ ticks[Len(ticks)] <= MaxYear
        /\ MaxYear - ticks[Len(ticks)] < TickStep
        /\ ticks[Len(ticks)] = MaxYear <=> (MaxYear - MinYear) % TickStep = 0

\* Two ticks, the last of them below the maximum year.
C9_Witness ==
    /\ Ticked
    /\ Len(ticks) = 2
    /\ ticks[2] < MaxYear

(* -------------------------------- C10 --------------------------------- *)

\* C10: a title is in the cleaned dataset iff some input record of that
\* title has episodes; the record kept is the first such record; an earlier
\* record without episodes never removes a later one with episodes; every
\* cleaned record is an input record, its episodes converted to an integer.
C10_DropNaBeforeDropDuplicates ==
    Cleaned =>
        /\ \A t \in {csv[i].title : i \in 1..Len(csv)} :
               (\E k \in 1..N : sorted_shows[k].title = t)
                   <=> ValidOccurrences(t) # {}
        /\ \A k \in 1..N :
               /\ \E i \in 1..Len(csv) : IsInputRecord(sorted_shows[k], csv[i])
               /\ ValidOccurrences(sorted_shows[k].title) # {}
               /\ shows[SetMin(ValidOccurrences(sorted_shows[k].title))]
                      \in Rows(removed_duplicates)
        /\ \A i, j \in 1..Len(csv) :
               (i < j /\ csv[i].title = csv[j].title
                      /\ isna(csv[i].episodes) /\ ~isna(csv[j].episodes))
                   => \E k \in 1..N : sorted_shows[k].title = csv[j].title

\* A record without episodes precedes one of the same title with episodes,
\* and the title is in the cleaned dataset.
C10_Witness ==
    /\ Cleaned
    /\ \E i, j \in 1..Len(csv) :
           /\ i < j
           /\ csv[i].title = csv[j].title
           /\ isna(csv[i].episodes)
           /\ ~isna(csv[j].episodes)
           /\ \E k \in 1..N : sorted_shows[k].title = csv[j].title

====
